---- MODULE Spec2Model ----
(***************************************************************************)
(* Model of the stat-functions library: the closed-form mean and standard  *)
(* deviation functions of src/functions.py and src/code/functions.py.      *)
(*                                                                         *)
(* Numbers are exact rationals <<numerator, denominator>> in lowest terms  *)
(* with a positive denominator.  A returned number is a record             *)
(* [q, irr]: the rational q when irr is FALSE, the positive irrational     *)
(* square root of q when irr is TRUE (math.sqrt of a non-square).          *)
(* Rounding, overflow and underflow of IEEE doubles are not modelled.      *)
(*                                                                         *)
(* The library keeps no state.  The state of the model is the last call:   *)
(* the file and function called, the arguments, and the outcome, which is  *)
(* either a returned number or a raised exception with its message.        *)
(***************************************************************************)
EXTENDS Integers, FiniteSets, Sequences, TLC

VARIABLES module, fn, args, outcome

vars == <<module, fn, args, outcome>>

----------------------------------------------------------------------------
(* Bounds of the input sets.                                               *)

MaxDen == 2
MaxN == 3
MaxSupport == 2
MaxAB == 8
MaxRate == 9

(* The default of the parameter `support` of mean_geometric_dist.          *)
DefaultSupport == 0

----------------------------------------------------------------------------
(* Exact rational arithmetic.                                              *)

Abs(x) == IF x < 0 THEN -x ELSE x

RECURSIVE GCD(_, _)
GCD(x, y) == IF y = 0 THEN x ELSE GCD(y, x % y)

Norm(n, d) ==
    LET g == GCD(Abs(n), Abs(d))
        s == IF d < 0 THEN -1 ELSE 1
    IN  <<(s * n) \div g, (s * d) \div g>>

Whole(k) == <<k, 1>>
Zero == Whole(0)
One == Whole(1)

RAdd(x, y) == Norm(x[1] * y[2] + y[1] * x[2], x[2] * y[2])
RSub(x, y) == Norm(x[1] * y[2] - y[1] * x[2], x[2] * y[2])
RMul(x, y) == Norm(x[1] * y[1], x[2] * y[2])
RDiv(x, y) == Norm(x[1] * y[2], x[2] * y[1])
RLt(x, y) == x[1] * y[2] < y[1] * x[2]
RLe(x, y) == x[1] * y[2] <= y[1] * x[2]
RGt(x, y) == RLt(y, x)

RECURSIVE RPow(_, _)
RPow(x, k) == IF k = 0 THEN One ELSE RMul(x, RPow(x, k - 1))

IsSquare(k) == \E r \in 0..k : r * r = k
ISqrt(k) == CHOOSE r \in 0..k : r * r = k

----------------------------------------------------------------------------
(* Outcomes of a call and of the arithmetic that can raise.                *)

Num(q) == [q |-> q, irr |-> FALSE]
Root(q) == [q |-> q, irr |-> TRUE]

Return(v) == [kind |-> "return", value |-> v]
Raise(exc, msg) == [kind |-> exc, msg |-> msg]

Returned(o) == o.kind = "return"

(* x / y of Python: ZeroDivisionError on a zero divisor.                   *)
Div(x, y) ==
    IF y = Zero
    THEN Raise("ZeroDivisionError", "division by zero")
    ELSE Return(RDiv(x, y))

(* math.sqrt: ValueError "math domain error" on a negative argument.       *)
math_sqrt(x) ==
    IF RLt(x, Zero)
    THEN Raise("ValueError", "math domain error")
    ELSE IF IsSquare(x[1]) /\ IsSquare(x[2])
         THEN Return(Num(<<ISqrt(x[1]), ISqrt(x[2])>>))
         ELSE Return(Root(x))

(* isinstance(n, int) for an argument n = [isint, val].                    *)
isinstance_int(n) == n.isint

----------------------------------------------------------------------------
(* src/functions.py                                                        *)

top_mean_binomial_dist(p, n) ==
    IF ~(RLe(Zero, p) /\ RLe(p, One))
    THEN Raise("ValueError", "p must agree with 0 <= p <= 1.")
    ELSE IF ~isinstance_int(n)
    THEN Raise("ValueError", "n must be a non-zero positive integer.")
    ELSE Return(Num(RMul(n.val, p)))

top_mean_geometric_dist(p, support) ==
    IF ~(RLt(Zero, p) /\ RLe(p, One))
    THEN Raise("ValueError", "p must agree with 0 < p <= 1.")
    ELSE IF support = 0
    THEN LET quot == Div(One, p)
         IN  IF Returned(quot)
             THEN Return(Num(quot.value))
             ELSE quot
    ELSE IF support = 1
    THEN LET quot == Div(RSub(One, p), One)
         IN  IF Returned(quot)
             THEN Return(Num(quot.value))
             ELSE quot
    ELSE Raise("ValueError", "support must be 0 or 1.")

(* Mutant: the conventional mean (a + b) / 2.                              *)
top_mean_uniform_dist_sum(a, b) ==
    IF ~RLt(a, b)
    THEN Raise("ValueError", "a and b must agree with a < b.")
    ELSE LET quot == Div(RAdd(a, b), Whole(2))
         IN  IF Returned(quot)
             THEN Return(Num(quot.value))
             ELSE quot

top_mean_uniform_dist(a, b) ==
    IF ~RLt(a, b)
    THEN Raise("ValueError", "a and b must agree with a < b.")
    ELSE LET quot == Div(RMul(a, b), Whole(2))
         IN  IF Returned(quot)
             THEN Return(Num(quot.value))
             ELSE quot

(* Mutant: the validation of src/code/functions.py.                        *)
top_mean_exponential_dist_strict(rate) ==
    IF RLe(rate, Zero)
    THEN Raise("ValueError", "λ cannot be equal to 0.")
    ELSE LET quot == Div(One, rate)
         IN  IF Returned(quot)
             THEN Return(Num(quot.value))
             ELSE quot

top_mean_exponential_dist(rate) ==
    IF rate = Zero
    THEN Raise("ValueError", "λ cannot be equal to 0.")
    ELSE LET quot == Div(One, rate)
         IN  IF Returned(quot)
             THEN Return(Num(quot.value))
             ELSE quot

----------------------------------------------------------------------------
(* src/code/functions.py                                                   *)

code_mean_binomial_dist(p, n) ==
    IF ~(RLe(Zero, p) /\ RLe(p, One))
    THEN Raise("ValueError", "p must agree with 0 <= p <= 1.")
    ELSE IF ~isinstance_int(n)
    THEN Raise("ValueError", "n must be a non-zero positive integer.")
    ELSE IF RLe(n.val, Zero)
    THEN Raise("ValueError", "n must be a non-zero positive integer.")
    ELSE Return(Num(RMul(n.val, p)))

(* Mutant: support 1 returns (1 - p) / p.                                  *)
code_mean_geometric_dist_over_p(p, support) ==
    IF ~(RLt(Zero, p) /\ RLe(p, One))
    THEN Raise("ValueError", "p must agree with 0 < p <= 1.")
    ELSE IF support = 0
    THEN LET quot == Div(One, p)
         IN  IF Returned(quot)
             THEN Return(Num(quot.value))
             ELSE quot
    ELSE IF support = 1
    THEN LET quot == Div(RSub(One, p), p)
         IN  IF Returned(quot)
             THEN Return(Num(quot.value))
             ELSE quot
    ELSE Raise("ValueError", "support must be 0 or 1.")

code_mean_geometric_dist(p, support) ==
    IF ~(RLt(Zero, p) /\ RLe(p, One))
    THEN Raise("ValueError", "p must agree with 0 < p <= 1.")
    ELSE IF support = 0
    THEN LET quot == Div(One, p)
         IN  IF Returned(quot)
             THEN Return(Num(quot.value))
             ELSE quot
    ELSE IF support = 1
    THEN LET quot == Div(RSub(One, p), One)
         IN  IF Returned(quot)
             THEN Return(Num(quot.value))
             ELSE quot
    ELSE Raise("ValueError", "support must be 0 or 1.")

(* Mutant: the conventional mean (a + b) / 2.                              *)
code_mean_uniform_dist_sum(a, b) ==
    IF RGt(a, b)
    THEN Raise("ValueError", "a and b must agree with a < b.")
    ELSE LET quot == Div(RAdd(a, b), Whole(2))
         IN  IF Returned(quot)
             THEN Return(Num(quot.value))
             ELSE quot

code_mean_uniform_dist(a, b) ==
    IF RGt(a, b)
    THEN Raise("ValueError", "a and b must agree with a < b.")
    ELSE LET quot == Div(RMul(a, b), Whole(2))
         IN  IF Returned(quot)
             THEN Return(Num(quot.value))
             ELSE quot

code_mean_exponential_dist(rate) ==
    IF RLe(rate, Zero)
    THEN Raise("ValueError", "λ cannot be less than or equal to 0.")
    ELSE LET quot == Div(One, rate)
         IN  IF Returned(quot)
             THEN Return(Num(quot.value))
             ELSE quot

(* Mutant: the variance loses its factor (1 - p).                          *)
code_stdev_binomial_dist_np(p, n) ==
    IF ~(RLe(Zero, p) /\ RLe(p, One))
    THEN Raise("ValueError", "p must agree with 0 <= p <= 1.")
    ELSE IF ~isinstance_int(n)
    THEN Raise("ValueError", "n must be a non-zero positive integer.")
    ELSE IF RLe(n.val, Zero)
    THEN Raise("ValueError", "n must be a non-zero positive integer.")
    ELSE LET var == RMul(n.val, p)
         IN  math_sqrt(var)

code_stdev_binomial_dist(p, n) ==
    IF ~(RLe(Zero, p) /\ RLe(p, One))
    THEN Raise("ValueError", "p must agree with 0 <= p <= 1.")
    ELSE IF ~isinstance_int(n)
    THEN Raise("ValueError", "n must be a non-zero positive integer.")
    ELSE IF RLe(n.val, Zero)
    THEN Raise("ValueError", "n must be a non-zero positive integer.")
    ELSE LET var == RMul(RMul(n.val, p), RSub(One, p))
         IN  math_sqrt(var)

(* Mutant: the validation admits p = 0, as the binomial one does.          *)
code_stdev_geometric_dist_zero_p(p) ==
    IF ~(RLe(Zero, p) /\ RLe(p, One))
    THEN Raise("ValueError", "p must agree with 0 < p <= 1.")
    ELSE LET var == Div(RSub(One, p), RPow(p, 2))
         IN  IF Returned(var)
             THEN math_sqrt(var.value)
             ELSE var

code_stdev_geometric_dist(p) ==
    IF ~(RLt(Zero, p) /\ RLe(p, One))
    THEN Raise("ValueError", "p must agree with 0 < p <= 1.")
    ELSE LET var == Div(RSub(One, p), RPow(p, 2))
         IN  IF Returned(var)
             THEN math_sqrt(var.value)
             ELSE var

(* Mutant: the validation rejects only negative rates.                     *)
code_stdev_poisson_dist_zero(rate) ==
    IF RLt(rate, Zero)
    THEN Raise("ValueError", "λ cannot be less than or equal to 0.")
    ELSE math_sqrt(rate)

code_stdev_poisson_dist(rate) ==
    IF RLe(rate, Zero)
    THEN Raise("ValueError", "λ cannot be less than or equal to 0.")
    ELSE math_sqrt(rate)

code_stdev_uniform_dist(a, b) ==
    IF RGt(a, b)
    THEN Raise("ValueError", "a and b must agree with a < b.")
    ELSE LET twelfth == Div(One, Whole(12))
         IN  IF Returned(twelfth)
             THEN math_sqrt(RMul(twelfth.value, RPow(RSub(b, a), 2)))
             ELSE twelfth

(* Mutant: the variance is 1 / rate, the rate is not squared.              *)
code_stdev_exponential_dist_unsquared(rate) ==
    IF RLe(rate, Zero)
    THEN Raise("ValueError", "λ cannot be less than or equal to 0.")
    ELSE LET var == Div(One, RPow(rate, 1))
         IN  IF Returned(var)
             THEN math_sqrt(var.value)
             ELSE var

code_stdev_exponential_dist(rate) ==
    IF RLe(rate, Zero)
    THEN Raise("ValueError", "λ cannot be less than or equal to 0.")
    ELSE LET var == Div(One, RPow(rate, 2))
         IN  IF Returned(var)
             THEN math_sqrt(var.value)
             ELSE var

----------------------------------------------------------------------------
(* The arguments a caller passes: valid ones and ones on each side of     *)
(* every validation check.                                                 *)

Probs == {Norm(k, d) : k \in -1..(MaxDen + 1), d \in 1..MaxDen}

(* n is an int, or a float that may or may not equal an integer.           *)
Counts ==
    {[isint |-> TRUE, val |-> Whole(k)] : k \in -1..MaxN}
    \cup {[isint |-> FALSE, val |-> Norm(k, 2)] : k \in -1..(2 * MaxN)}

Supports == -1..MaxSupport

Bounds == {Whole(k) : k \in -1..MaxAB}

Rates == {Norm(k, d) : k \in -MaxRate..MaxRate, d \in 1..MaxDen}

----------------------------------------------------------------------------
(* One action per function of each file: the call, recorded with its       *)
(* arguments and its outcome.                                              *)

Top == "src/functions.py"
Code == "src/code/functions.py"

TopMeanBinomial ==
    \E p \in Probs, n \in Counts :
        /\ module' = Top
        /\ fn' = "mean_binomial_dist"
        /\ args' = [p |-> p, n |-> n]
        /\ outcome' = top_mean_binomial_dist(p, n)

(* support is passed, or omitted and then takes its default.               *)
TopMeanGeometric ==
    \E p \in Probs, passed \in BOOLEAN, s \in Supports :
        LET sup == IF passed THEN s ELSE DefaultSupport
        IN  /\ module' = Top
            /\ fn' = "mean_geometric_dist"
            /\ args' = [p |-> p, support |-> sup, given |-> passed]
            /\ outcome' = top_mean_geometric_dist(p, sup)

TopMeanUniform ==
    \E a \in Bounds, b \in Bounds :
        /\ module' = Top
        /\ fn' = "mean_uniform_dist"
        /\ args' = [a |-> a, b |-> b]
        /\ outcome' = top_mean_uniform_dist(a, b)

TopMeanExponential ==
    \E rate \in Rates :
        /\ module' = Top
        /\ fn' = "mean_exponential_dist"
        /\ args' = [rate |-> rate]
        /\ outcome' = top_mean_exponential_dist(rate)

CodeMeanBinomial ==
    \E p \in Probs, n \in Counts :
        /\ module' = Code
        /\ fn' = "mean_binomial_dist"
        /\ args' = [p |-> p, n |-> n]
        /\ outcome' = code_mean_binomial_dist(p, n)

CodeMeanGeometric ==
    \E p \in Probs, passed \in BOOLEAN, s \in Supports :
        LET sup == IF passed THEN s ELSE DefaultSupport
        IN  /\ module' = Code
            /\ fn' = "mean_geometric_dist"
            /\ args' = [p |-> p, support |-> sup, given |-> passed]
            /\ outcome' = code_mean_geometric_dist(p, sup)

CodeMeanUniform ==
    \E a \in Bounds, b \in Bounds :
        /\ module' = Code
        /\ fn' = "mean_uniform_dist"
        /\ args' = [a |-> a, b |-> b]
        /\ outcome' = code_mean_uniform_dist(a, b)

CodeMeanExponential ==
    \E rate \in Rates :
        /\ module' = Code
        /\ fn' = "mean_exponential_dist"
        /\ args' = [rate |-> rate]
        /\ outcome' = code_mean_exponential_dist(rate)

CodeStdevBinomial ==
    \E p \in Probs, n \in Counts :
        /\ module' = Code
        /\ fn' = "stdev_binomial_dist"
        /\ args' = [p |-> p, n |-> n]
        /\ outcome' = code_stdev_binomial_dist(p, n)

CodeStdevGeometric ==
    \E p \in Probs :
        /\ module' = Code
        /\ fn' = "stdev_geometric_dist"
        /\ args' = [p |-> p]
        /\ outcome' = code_stdev_geometric_dist(p)

CodeStdevPoisson ==
    \E rate \in Rates :
        /\ module' = Code
        /\ fn' = "stdev_poisson_dist"
        /\ args' = [rate |-> rate]
        /\ outcome' = code_stdev_poisson_dist(rate)

CodeStdevUniform ==
    \E a \in Bounds, b \in Bounds :
        /\ module' = Code
        /\ fn' = "stdev_uniform_dist"
        /\ args' = [a |-> a, b |-> b]
        /\ outcome' = code_stdev_uniform_dist(a, b)

CodeStdevExponential ==
    \E rate \in Rates :
        /\ module' = Code
        /\ fn' = "stdev_exponential_dist"
        /\ args' = [rate |-> rate]
        /\ outcome' = code_stdev_exponential_dist(rate)

(* Nothing has been called yet.                                            *)
Init ==
    /\ module = "none"
    /\ fn = "none"
    /\ args = [none |-> TRUE]
    /\ outcome = [kind |-> "none"]

Next ==
    \/ TopMeanBinomial
    \/ TopMeanGeometric
    \/ TopMeanUniform
    \/ TopMeanExponential
    \/ CodeMeanBinomial
    \/ CodeMeanGeometric
    \/ CodeMeanUniform
    \/ CodeMeanExponential
    \/ CodeStdevBinomial
    \/ CodeStdevGeometric
    \/ CodeStdevPoisson
    \/ CodeStdevUniform
    \/ CodeStdevExponential

Spec == Init /\ [][Next]_vars

----------------------------------------------------------------------------
(* Vocabulary of the properties.                                           *)

(* The messages the validation checks of the two files raise with.         *)
ValidationMessages ==
    { "p must agree with 0 <= p <= 1.",
      "n must be a non-zero positive integer.",
      "p must agree with 0 < p <= 1.",
      "support must be 0 or 1.",
      "a and b must agree with a < b.",
      "λ cannot be equal to 0.",
      "λ cannot be less than or equal to 0." }

(* The call failed with the invalid-parameter error of a validation check. *)
InvalidParameter(o) == o.kind = "ValueError" /\ o.msg \in ValidationMessages

(* The call returned the rational q.                                       *)
ReturnedNum(o, q) == Returned(o) /\ o.value = Num(q)

Square(v) == IF v.irr THEN v.q ELSE RMul(v.q, v.q)
NonNegative(v) == v.irr \/ RLe(Zero, v.q)

(* The call returned the non-negative square root of the rational q.       *)
ReturnedRootOf(o, q) ==
    Returned(o) /\ NonNegative(o.value) /\ Square(o.value) = q

(* Two outcomes agree: both fail validation, or both return one number.    *)
SameOutcome(o1, o2) ==
    \/ InvalidParameter(o1) /\ InvalidParameter(o2)
    \/ Returned(o1) /\ Returned(o2) /\ o1.value = o2.value

(* The outcome of the mean function f of each file on the arguments a.     *)
TopMean(f, a) ==
    CASE f = "mean_binomial_dist" -> top_mean_binomial_dist(a.p, a.n)
      [] f = "mean_geometric_dist" -> top_mean_geometric_dist(a.p, a.support)
      [] f = "mean_uniform_dist" -> top_mean_uniform_dist(a.a, a.b)
      [] f = "mean_exponential_dist" -> top_mean_exponential_dist(a.rate)

CodeMean(f, a) ==
    CASE f = "mean_binomial_dist" -> code_mean_binomial_dist(a.p, a.n)
      [] f = "mean_geometric_dist" -> code_mean_geometric_dist(a.p, a.support)
      [] f = "mean_uniform_dist" -> code_mean_uniform_dist(a.a, a.b)
      [] f = "mean_exponential_dist" -> code_mean_exponential_dist(a.rate)

(* The outcome of the same call made to the other file.                    *)
OtherMean == IF module = Top THEN CodeMean(fn, args) ELSE TopMean(fn, args)

MeanFunctions ==
    { "mean_binomial_dist", "mean_geometric_dist",
      "mean_uniform_dist", "mean_exponential_dist" }

IsBinomial == fn \in {"mean_binomial_dist", "stdev_binomial_dist"}
IsUniform == fn \in {"mean_uniform_dist", "stdev_uniform_dist"}
IsExponential == fn \in {"mean_exponential_dist", "stdev_exponential_dist"}

Half == Norm(1, 2)

----------------------------------------------------------------------------
(* C1: for 0 <= p <= 1 and a positive integer n, every mean_binomial_dist  *)
(* returns n * p and stdev_binomial_dist returns the non-negative square   *)
(* root of n * p * (1 - p); neither raises.                                *)
C1_BinomialValues ==
    (/\ IsBinomial
     /\ RLe(Zero, args.p) /\ RLe(args.p, One)
     /\ args.n.isint /\ RGt(args.n.val, Zero))
    => IF fn = "mean_binomial_dist"
       THEN ReturnedNum(outcome, RMul(args.n.val, args.p))
       ELSE ReturnedRootOf(outcome,
                RMul(RMul(args.n.val, args.p), RSub(One, args.p)))

(* stdev_binomial_dist(1/2, 3) returned the irrational root of 3/4.        *)
C1_Witness ==
    /\ fn = "stdev_binomial_dist"
    /\ args.p = Half /\ args.n = [isint |-> TRUE, val |-> Whole(3)]
    /\ Returned(outcome) /\ outcome.value = Root(Norm(3, 4))

(* C2: every binomial function of both files fails with the invalid-       *)
(* parameter error when p is outside [0, 1], or n is not an int, or        *)
(* n <= 0; so do mean_binomial_dist(0.5, 0) and mean_binomial_dist(0.5,    *)
(* 2.5).                                                                   *)
C2_BinomialRejects ==
    (/\ IsBinomial
     /\ \/ ~(RLe(Zero, args.p) /\ RLe(args.p, One))
        \/ ~args.n.isint
        \/ RLe(args.n.val, Zero))
    => InvalidParameter(outcome)

(* C3: mean_geometric_dist fails for every p outside (0, 1] with the       *)
(* message of the check of p, whatever the support; for 0 < p <= 1 it      *)
(* returns 1/p for support 0 and for an omitted support, 1 - p for         *)
(* support 1, and fails for every other support.                           *)
C3_Geometric ==
    fn = "mean_geometric_dist"
    => IF ~(RLt(Zero, args.p) /\ RLe(args.p, One))
       THEN /\ InvalidParameter(outcome)
            /\ outcome.msg = "p must agree with 0 < p <= 1."
       ELSE /\ (~args.given \/ args.support = 0)
               => ReturnedNum(outcome, RDiv(One, args.p))
            /\ (args.given /\ args.support = 1)
               => ReturnedNum(outcome, RSub(One, args.p))
            /\ (args.given /\ args.support \notin {0, 1})
               => InvalidParameter(outcome)

(* mean_geometric_dist(1/2, 1) of src/code/functions.py returned 1/2.      *)
C3_Witness ==
    /\ module = Code /\ fn = "mean_geometric_dist"
    /\ args.p = Half /\ args.given /\ args.support = 1
    /\ ReturnedNum(outcome, Half)

(* C4: every uniform function of both files fails with the invalid-        *)
(* parameter error whenever a >= b, for a = b as for a > b.                *)
C4_UniformStrict ==
    (IsUniform /\ RLe(args.b, args.a)) => InvalidParameter(outcome)

(* C5: for a < b, every mean_uniform_dist returns (a * b) / 2 and          *)
(* stdev_uniform_dist returns the non-negative square root of              *)
(* (b - a)^2 / 12.                                                         *)
C5_UniformValues ==
    (IsUniform /\ RLt(args.a, args.b))
    => IF fn = "mean_uniform_dist"
       THEN ReturnedNum(outcome, RDiv(RMul(args.a, args.b), Whole(2)))
       ELSE ReturnedRootOf(outcome,
                RDiv(RPow(RSub(args.b, args.a), 2), Whole(12)))

(* mean_uniform_dist(2, 8) of src/code/functions.py returned 8.            *)
C5_Witness ==
    /\ module = Code /\ fn = "mean_uniform_dist"
    /\ args.a = Whole(2) /\ args.b = Whole(8)
    /\ ReturnedNum(outcome, Whole(8))

(* C6: for rate > 0, every mean_exponential_dist returns 1 / rate and      *)
(* stdev_exponential_dist returns the square root of 1 / rate^2, which is  *)
(* the same number 1 / rate; for rate = 0 every exponential function       *)
(* fails with the invalid-parameter error.                                 *)
C6_Exponential ==
    IsExponential
    => /\ RGt(args.rate, Zero)
          => /\ ReturnedNum(outcome, RDiv(One, args.rate))
             /\ fn = "stdev_exponential_dist"
                => ReturnedRootOf(outcome, RDiv(One, RPow(args.rate, 2)))
       /\ args.rate = Zero => InvalidParameter(outcome)

(* stdev_exponential_dist(4) returned 1/4.                                 *)
C6_Witness ==
    /\ fn = "stdev_exponential_dist" /\ args.rate = Whole(4)
    /\ ReturnedNum(outcome, Norm(1, 4))

(* C7: for rate < 0 both exponential functions of src/code/functions.py    *)
(* fail with the invalid-parameter error and mean_exponential_dist of      *)
(* src/functions.py returns 1 / rate; for rate >= 0 mean_exponential_dist  *)
(* has the same outcome in the two files.                                  *)
C7_ExponentialVariants ==
    IsExponential
    => /\ (RLt(args.rate, Zero) /\ module = Code)
          => InvalidParameter(outcome)
       /\ (RLt(args.rate, Zero) /\ module = Top)
          => /\ ReturnedNum(outcome, RDiv(One, args.rate))
             /\ RLt(outcome.value.q, Zero)
       /\ (RLe(Zero, args.rate) /\ fn = "mean_exponential_dist")
          => SameOutcome(outcome, OtherMean)

(* mean_exponential_dist(-1/2) of src/functions.py returned -2.            *)
C7_Witness ==
    /\ module = Top /\ fn = "mean_exponential_dist"
    /\ args.rate = Norm(-1, 2)
    /\ ReturnedNum(outcome, Whole(-2))

(* C8: stdev_poisson_dist returns the non-negative square root of rate     *)
(* for rate > 0 and fails with the invalid-parameter error for rate <= 0.  *)
C8_Poisson ==
    fn = "stdev_poisson_dist"
    => IF RGt(args.rate, Zero)
       THEN ReturnedRootOf(outcome, args.rate)
       ELSE InvalidParameter(outcome)

(* stdev_poisson_dist(9) returned 3.                                       *)
C8_Witness ==
    /\ fn = "stdev_poisson_dist" /\ args.rate = Whole(9)
    /\ ReturnedNum(outcome, Whole(3))

(* The divisors of the call are non-zero and its variance, when it has     *)
(* one, is not negative.                                                   *)
ArithmeticDefined ==
    CASE fn = "mean_geometric_dist" -> args.p # Zero
      [] fn = "mean_exponential_dist" -> args.rate # Zero
      [] fn = "stdev_binomial_dist" ->
            RLe(Zero, RMul(RMul(args.n.val, args.p), RSub(One, args.p)))
      [] fn = "stdev_geometric_dist" ->
            /\ args.p # Zero
            /\ RPow(args.p, 2) # Zero
            /\ RLe(Zero, RDiv(RSub(One, args.p), RPow(args.p, 2)))
      [] fn = "stdev_uniform_dist" ->
            RLe(Zero, RDiv(RPow(RSub(args.b, args.a), 2), Whole(12)))
      [] fn = "stdev_exponential_dist" ->
            /\ args.rate # Zero
            /\ RPow(args.rate, 2) # Zero
            /\ RLe(Zero, RDiv(One, RPow(args.rate, 2)))
      [] OTHER -> TRUE

C10_MeansAgree ==
    (fn \in MeanFunctions /\ Returned(outcome) /\ Returned(OtherMean))
    => outcome.value = OtherMean.value

(* mean_uniform_dist(2, 8) returned 8 in src/functions.py and returns 8    *)
(* in src/code/functions.py.                                               *)
C10_Witness ==
    /\ module = Top /\ fn = "mean_uniform_dist"
    /\ args.a = Whole(2) /\ args.b = Whole(8)
    /\ ReturnedNum(outcome, Whole(8)) /\ ReturnedNum(OtherMean, Whole(8))

====
